---- MODULE Spec2Model ----
(***************************************************************************)
(* The notebook tv_analysis_clean as a state machine: one action           *)
(* per code cell, executed top to bottom.  Tables are sequences of rows;   *)
(* a row is a record of the columns the cells read.  imdb_score is kept in *)
(* tenths (7.5 is 75, the rounded 8.0 is 80), imdb_votes is a natural, and *)
(* a missing cell is NaN.  The text columns the cells never read (name,    *)
(* character, role, genres) take part only in whole-row equality, as title *)
(* does, and are represented by it.                                        *)
(***************************************************************************)
EXTENDS Integers, Sequences, FiniteSets

\* Bounds of the model.
MaxRows == 2
MaxVotes == 2

\* Program constants.
MinYear == 1999
LowScore == 4
HighScore == 9
BarWidth == 40
ReliabilityThreshold == 30

\* A missing value (pandas NaN) in a numeric column.
NaN == -1

VARIABLES
    pc,                \* the next cell to execute
    input,             \* the rows of the file read by read_csv
    tie_order,         \* how the build's default sort orders equal keys
    columns,           \* df.columns
    df,                \* df
    prev,              \* the table the most recently executed cell consumed
    golden_age_shows,  \* golden_age_shows
    score_counts,      \* score_counts
    results,           \* results
    bars,              \* the bars printed by the chart loop
    error              \* the exception that ended the run, if any

vars == << pc, input, tie_order, columns, df, prev, golden_age_shows,
           score_counts, results, bars, error >>

----------------------------------------------------------------------------
\* Input space

\* The header of the file, as the rename cell expects it.
RawColumns ==
    << "   name", "Character", "r0le", "TITLE", "  Type", "release Year",
       "genres", "imdb sc0re", "imdb v0tes" >>

wrong_shows_list == << "shows", "SHOW", "tv show", "tv shows", "tv series", "tv" >>

correct_show == "SHOW"

Row(t, ty, y, s, v) ==
    [title |-> t, type |-> ty, release_year |-> y, imdb_score |-> s, imdb_votes |-> v]

\* Spellings of the type column: the six listed variants, MOVIE, and two
\* spellings the list does not name.
Types ==
    {"shows", "SHOW", "tv show", "tv shows", "tv series", "tv",
     "MOVIE", "Show", "movies"}

\* The rows a table is drawn from: golden-age shows with every combination
\* of a mid-range score and a vote count, scores at the edges of the
\* 4..9 window, missing cells, every spelling of type, an early year and a
\* second title.
RowPool ==
    { Row("A", "SHOW", 1999, s, v) : s \in {65, 75, 85}, v \in 0..MaxVotes }
    \cup { Row("A", "SHOW", 1999, s, 1) : s \in {25, 35, 94, 96} }
    \cup { Row("A", "SHOW", 1999, NaN, 1), Row("A", "SHOW", 1999, 75, NaN),
           Row("A", "SHOW", 1999, NaN, NaN) }
    \cup { Row("A", ty, 1999, 75, 1) : ty \in Types }
    \cup { Row("A", "SHOW", 1998, 75, 1), Row("B", "SHOW", 2000, 75, 1) }

Tables == UNION { [1..n -> RowPool] : n \in 0..MaxRows }

----------------------------------------------------------------------------
\* Helpers over sequences

RECURSIVE SumVotes(_)
SumVotes(t) ==
    IF t = << >> THEN 0 ELSE Head(t).imdb_votes + SumVotes(Tail(t))

Range(t) == { t[i] : i \in DOMAIN t }

Min(S) == CHOOSE x \in S : \A y \in S : x <= y

Max(S) == CHOOSE x \in S : \A y \in S : y <= x

\* The elements of a set of integers in ascending order.
RECURSIVE Ascending(_)
Ascending(S) ==
    IF S = {} THEN << >> ELSE << Min(S) >> \o Ascending(S \ {Min(S)})

Remove(t, i) == [ j \in 1..(Len(t) - 1) |-> IF j < i THEN t[j] ELSE t[j + 1] ]

----------------------------------------------------------------------------
\* The cells' computations

\* df.rename(columns={...}): a header in the mapping is replaced, any other
\* header is left as it is.
RenameColumn(c) ==
    CASE c = "   name" -> "name"
      [] c = "Character" -> "character"
      [] c = "r0le" -> "role"
      [] c = "TITLE" -> "title"
      [] c = "  Type" -> "type"
      [] c = "release Year" -> "release_year"
      [] c = "genres" -> "genres"
      [] c = "imdb sc0re" -> "imdb_score"
      [] c = "imdb v0tes" -> "imdb_votes"
      [] OTHER -> c

rename(cols) == [ i \in DOMAIN cols |-> RenameColumn(cols[i]) ]

IsKept(r) == r.imdb_score # NaN /\ r.imdb_votes # NaN

\* dropna with subset=['imdb_score'] alone.
dropna_score_only(t) == SelectSeq(t, LAMBDA r : r.imdb_score # NaN)

\* df.dropna(subset=['imdb_score', 'imdb_votes'])
dropna(t) == SelectSeq(t, IsKept)

\* df.drop_duplicates(): a row equal to an earlier row is removed, the first
\* occurrence stays.
RECURSIVE drop_duplicates(_)
drop_duplicates(t) ==
    IF t = << >> THEN << >>
    ELSE LET front == drop_duplicates(SubSeq(t, 1, Len(t) - 1))
             last == t[Len(t)]
         IN  IF last \in Range(front) THEN front ELSE Append(front, last)

\* replace that matches the first entry of the list only.
replace_wrong_shows_first_only(t, wrong, correct) ==
    [ i \in DOMAIN t |->
        IF wrong # << >> /\ t[i].type = wrong[1]
        THEN [ t[i] EXCEPT !.type = correct ] ELSE t[i] ]

\* df['type'].replace(wrong_shows_list, correct_show): a value in the list
\* becomes correct_show, any other value stays.
replace_wrong_shows(t, wrong, correct) ==
    [ i \in DOMAIN t |->
        IF t[i].type \in Range(wrong)
        THEN [ t[i] EXCEPT !.type = correct ] ELSE t[i] ]

\* The year filter with > in place of >=.
golden_age_filter_exclusive(t) ==
    SelectSeq(SelectSeq(t, LAMBDA r : r.release_year > MinYear),
              LAMBDA r : r.type = "SHOW")

\* df[df['release_year'] >= 1999], then [... ['type'] == 'SHOW']
golden_age_filter(t) ==
    SelectSeq(SelectSeq(t, LAMBDA r : r.release_year >= MinYear),
              LAMBDA r : r.type = "SHOW")

\* Rounding that takes a half upwards.
round_half_up(s) ==
    IF s = NaN THEN NaN
    ELSE IF s % 10 >= 5 THEN 10 * ((s \div 10) + 1) ELSE 10 * (s \div 10)

\* Series.round() of one score in tenths: numpy rounds to the nearest
\* integer and a half to the even neighbour; NaN stays NaN.
round(s) ==
    IF s = NaN THEN NaN
    ELSE LET q == s \div 10
             rem == s % 10
         IN  IF rem < 5 THEN 10 * q
             ELSE IF rem > 5 THEN 10 * (q + 1)
             ELSE IF q % 2 = 0 THEN 10 * q ELSE 10 * (q + 1)

\* golden_age_shows['imdb_score'].round()
round_scores(t) == [ i \in DOMAIN t |-> [ t[i] EXCEPT !.imdb_score = round(@) ] ]

\* groupby('imdb_score'): the group keys (NaN keys are dropped).
GroupKeys(t) == { t[i].imdb_score : i \in DOMAIN t } \ {NaN}

Group(t, k) == SelectSeq(t, LAMBDA r : r.imdb_score = k)

\* golden_age_shows.groupby('imdb_score')['title'].nunique()
nunique_titles(t) ==
    [ k \in GroupKeys(t) |-> Cardinality({ r.title : r \in Range(Group(t, k)) }) ]

\* The rows with 4 <= imdb_score <= 9.
analysis_filter(t) ==
    SelectSeq(t, LAMBDA r : r.imdb_score >= 10 * LowScore /\ r.imdb_score <= 10 * HighScore)

\* mean().round() of one group: sum / n rounded to the nearest integer,
\* a half to the even neighbour.
MeanRound(sum, n) ==
    LET q == sum \div n
        rem == sum % n
    IN  IF 2 * rem < n THEN q
        ELSE IF 2 * rem > n THEN q + 1
        ELSE IF q % 2 = 0 THEN q ELSE q + 1

\* analysis_df.groupby('imdb_score')['imdb_votes'].mean().round().reset_index():
\* one row per group, in ascending order of the key.
avg_votes_by_score(t) ==
    LET keys == Ascending(GroupKeys(t))
    IN  [ i \in DOMAIN keys |->
            [ imdb_score |-> keys[i],
              avg_votes |-> MeanRound(SumVotes(Group(t, keys[i])), Len(Group(t, keys[i]))) ] ]

\* The position sort_values takes next: a row with the largest avg_votes,
\* the first such row when the sort keeps equal keys in order, the last
\* otherwise.
PickMax(t, order) ==
    LET m == Max({ t[i].avg_votes : i \in DOMAIN t })
        at == { i \in DOMAIN t : t[i].avg_votes = m }
    IN  IF order = "stable" THEN Min(at) ELSE Max(at)

\* sort_values with ascending=True.
RECURSIVE sort_values_ascending(_, _)
sort_values_ascending(t, order) ==
    IF t = << >> THEN << >>
    ELSE LET i == PickMax(t, order)
         IN  Append(sort_values_ascending(Remove(t, i), order), t[i])

\* avg_votes_by_score.sort_values('avg_votes', ascending=False)
RECURSIVE sort_values(_, _)
sort_values(t, order) ==
    IF t = << >> THEN << >>
    ELSE LET i == PickMax(t, order)
         IN  << t[i] >> \o sort_values(Remove(t, i), order)

\* The chart loop with a max that raises on an empty column.
bar_chart_builtin_max(res) ==
    IF res = << >> THEN [ error |-> "ValueError", bars |-> << >> ]
    ELSE LET max_votes == Max({ res[i].avg_votes : i \in DOMAIN res })
         IN  IF max_votes = 0 THEN [ error |-> "ValueError", bars |-> << >> ]
             ELSE [ error |-> "none",
                    bars |-> [ i \in DOMAIN res |->
                        [ score |-> res[i].imdb_score \div 10,
                          votes |-> res[i].avg_votes,
                          bar_length |-> (res[i].avg_votes * BarWidth) \div max_votes ] ] ]

\* The chart loop over results.  max_votes is results['avg_votes'].max(),
\* NaN for an empty table, and then the loop body never runs.  With
\* max_votes = 0 the quotient votes / max_votes of the first row is NaN and
\* int(NaN) raises ValueError before any bar is printed.
bar_chart(res) ==
    IF res = << >> THEN [ error |-> "none", bars |-> << >> ]
    ELSE LET max_votes == Max({ res[i].avg_votes : i \in DOMAIN res })
         IN  IF max_votes = 0 THEN [ error |-> "ValueError", bars |-> << >> ]
             ELSE [ error |-> "none",
                    bars |-> [ i \in DOMAIN res |->
                        [ score |-> res[i].imdb_score \div 10,
                          votes |-> res[i].avg_votes,
                          bar_length |-> (res[i].avg_votes * BarWidth) \div max_votes ] ] ]

----------------------------------------------------------------------------
\* The run

Init ==
    /\ pc = "rename"
    /\ input \in Tables
    /\ tie_order \in {"stable", "unstable"}
    /\ columns = RawColumns
    /\ df = input
    /\ prev = << >>
    /\ golden_age_shows = << >>
    /\ score_counts = << >>
    /\ results = << >>
    /\ bars = << >>
    /\ error = "none"

RenameCell ==
    /\ pc = "rename"
    /\ columns' = rename(columns)
    /\ pc' = "dropna"
    /\ UNCHANGED << input, tie_order, df, prev, golden_age_shows, score_counts,
                    results, bars, error >>

DropnaCell ==
    /\ pc = "dropna"
    /\ df' = dropna(df)
    /\ prev' = df
    /\ pc' = "drop_duplicates"
    /\ UNCHANGED << input, tie_order, columns, golden_age_shows, score_counts,
                    results, bars, error >>

DropDuplicatesCell ==
    /\ pc = "drop_duplicates"
    /\ df' = drop_duplicates(df)
    /\ prev' = df
    /\ pc' = "replace"
    /\ UNCHANGED << input, tie_order, columns, golden_age_shows, score_counts,
                    results, bars, error >>

ReplaceCell ==
    /\ pc = "replace"
    /\ df' = replace_wrong_shows(df, wrong_shows_list, correct_show)
    /\ prev' = df
    /\ pc' = "filter"
    /\ UNCHANGED << input, tie_order, columns, golden_age_shows, score_counts,
                    results, bars, error >>

FilterCell ==
    /\ pc = "filter"
    /\ golden_age_shows' = golden_age_filter(df)
    /\ prev' = df
    /\ pc' = "round"
    /\ UNCHANGED << input, tie_order, columns, df, score_counts, results, bars, error >>

RoundCell ==
    /\ pc = "round"
    /\ golden_age_shows' = round_scores(golden_age_shows)
    /\ prev' = golden_age_shows
    /\ pc' = "score_counts"
    /\ UNCHANGED << input, tie_order, columns, df, score_counts, results, bars, error >>

ScoreCountsCell ==
    /\ pc = "score_counts"
    /\ score_counts' = nunique_titles(golden_age_shows)
    /\ pc' = "avg_votes"
    /\ UNCHANGED << input, tie_order, columns, df, prev, golden_age_shows,
                    results, bars, error >>

AvgVotesCell ==
    /\ pc = "avg_votes"
    /\ results' = sort_values(avg_votes_by_score(analysis_filter(golden_age_shows)), tie_order)
    /\ pc' = "chart"
    /\ UNCHANGED << input, tie_order, columns, df, prev, golden_age_shows,
                    score_counts, bars, error >>

ChartCell ==
    /\ pc = "chart"
    /\ bars' = bar_chart(results).bars
    /\ error' = bar_chart(results).error
    /\ pc' = IF bar_chart(results).error = "none" THEN "done" ELSE "failed"
    /\ UNCHANGED << input, tie_order, columns, df, prev, golden_age_shows,
                    score_counts, results >>

Next ==
    \/ RenameCell
    \/ DropnaCell
    \/ DropDuplicatesCell
    \/ ReplaceCell
    \/ FilterCell
    \/ RoundCell
    \/ ScoreCountsCell
    \/ AvgVotesCell
    \/ ChartCell

Spec == Init /\ [][Next]_vars

----------------------------------------------------------------------------
\* Properties

\* The cleaning cells have all run: df is the cleaned table.
Cleaned == pc \in {"filter", "round", "score_counts", "avg_votes", "chart", "done", "failed"}

\* The aggregation cell has run: results is the Aggregator's output.
Aggregated == pc \in {"chart", "done", "failed"}

Count(t, r) == Cardinality({ i \in DOMAIN t : t[i] = r })

Reverse(t) == [ i \in DOMAIN t |-> t[Len(t) + 1 - i] ]

Abs(x) == IF x < 0 THEN -x ELSE x

\* Bucket b (an integer rating) is the integer nearest to score s (in
\* tenths), the even one of the two when s lies halfway.
IsNearestEven(b, s) ==
    /\ s # NaN
    /\ Abs(10 * b - s) <= 5
    /\ (Abs(10 * b - s) = 5 => b % 2 = 0)

RECURSIVE VotesOver(_, _)
VotesOver(t, S) ==
    IF S = {} THEN 0
    ELSE LET i == CHOOSE x \in S : TRUE
         IN  t[i].imdb_votes + VotesOver(t, S \ {i})

\* The rows of the cleaned table that belong to the bucket of rating b.
Selected(b) ==
    { i \in DOMAIN df :
        /\ df[i].release_year >= MinYear
        /\ df[i].type = "SHOW"
        /\ IsNearestEven(b, df[i].imdb_score) }

\* C1: after the Cleaner has run, no two rows of the cleaned table are
\* identical across all columns.
C1_NoIdenticalRows ==
    Cleaned => \A i, j \in DOMAIN df : i # j => df[i] # df[j]

\* C2: the drop-incomplete step removes a row if and only if its imdb_score
\* or its imdb_votes is missing, and every row of the table from then on has
\* both.
C2_DropIncomplete ==
    /\ pc = "drop_duplicates" =>
          \A r \in Range(prev) \cup Range(df) :
              Count(df, r) =
                  IF r.imdb_score = NaN \/ r.imdb_votes = NaN THEN 0 ELSE Count(prev, r)
    /\ pc \notin {"rename", "dropna"} =>
          \A i \in DOMAIN df : df[i].imdb_score # NaN /\ df[i].imdb_votes # NaN

C2_Witness ==
    /\ pc = "drop_duplicates"
    /\ Len(prev) = 2
    /\ Len(df) = 1
    /\ \E i \in DOMAIN prev : prev[i].imdb_score # NaN /\ prev[i].imdb_votes = NaN

\* C3: after cleaning, the category column holds only SHOW or MOVIE.
C3_OnlyCanonicalCategories ==
    Cleaned => \A i \in DOMAIN df : df[i].type \in {"SHOW", "MOVIE"}

\* C4: canonicalization maps each of the six listed variants to SHOW, leaves
\* every other value (and every other column) unchanged, and applying it a
\* second time changes nothing.
C4_CanonicalizeIdempotent ==
    pc = "filter" =>
        /\ Len(df) = Len(prev)
        /\ \A i \in DOMAIN prev :
              /\ df[i] = [ prev[i] EXCEPT !.type = df[i].type ]
              /\ df[i].type =
                    IF prev[i].type \in {"shows", "SHOW", "tv show", "tv shows", "tv series", "tv"}
                    THEN "SHOW" ELSE prev[i].type
        /\ replace_wrong_shows(df, wrong_shows_list, correct_show) = df

C4_Witness ==
    /\ pc = "filter"
    /\ \E i, j \in DOMAIN prev : prev[i].type = "tv series" /\ prev[j].type = "MOVIE"

\* C5: a rating bucket whose distinct-title count is below the reliability
\* threshold is listed in the per-bucket counts but absent from the final
\* report.
C5_UnreliableBucketsExcluded ==
    Aggregated =>
        \A k \in DOMAIN score_counts :
            score_counts[k] < ReliabilityThreshold =>
                \A i \in DOMAIN results : results[i].imdb_score # k

\* C6: the output holds exactly one pair for each rating in 4..9 that has a
\* row with release_year >= 1999, category SHOW and that rounded rating; its
\* average is the mean of the votes of exactly those rows rounded to a
\* nearest integer; no other pair appears.
C6_AggregatorOutput ==
    Aggregated =>
        /\ \A b \in LowScore..HighScore :
              Selected(b) # {} =>
                  /\ Cardinality({ j \in DOMAIN results : results[j].imdb_score = 10 * b }) = 1
                  /\ \A j \in DOMAIN results :
                        results[j].imdb_score = 10 * b =>
                            2 * Abs(results[j].avg_votes * Cardinality(Selected(b))
                                    - VotesOver(df, Selected(b)))
                                <= Cardinality(Selected(b))
        /\ \A j \in DOMAIN results :
              \E b \in LowScore..HighScore :
                  results[j].imdb_score = 10 * b /\ Selected(b) # {}

C6_Witness ==
    /\ pc = "done"
    /\ Len(df) = 2
    /\ Len(results) = 1
    /\ Cardinality(Selected(8)) = 2
    /\ df[1].imdb_votes # df[2].imdb_votes

\* C7: the output is in non-increasing order of avg_votes, and it is the
\* same sequence whatever the order of the table's rows and when the cell
\* is run again, equal averages included.
C7_SortedAndDeterministic ==
    Aggregated =>
        /\ \A i, j \in DOMAIN results :
              i < j => results[i].avg_votes >= results[j].avg_votes
        /\ results =
              sort_values(
                  avg_votes_by_score(
                      analysis_filter(round_scores(golden_age_filter(Reverse(df))))),
                  tie_order)

C7_Witness ==
    /\ pc = "done"
    /\ Len(results) = 2
    /\ results[1].avg_votes = results[2].avg_votes

\* C8: a score goes to the nearest integer bucket and a score of exactly x.5
\* to the even neighbour: 7.5 and 8.5 both to 8, 6.5 to 6.
C8_RoundHalfEven ==
    pc = "score_counts" =>
        /\ Len(golden_age_shows) = Len(prev)
        /\ \A i \in DOMAIN prev :
              /\ golden_age_shows[i].imdb_score % 10 = 0
              /\ IsNearestEven(golden_age_shows[i].imdb_score \div 10, prev[i].imdb_score)
              /\ prev[i].imdb_score = 75 => golden_age_shows[i].imdb_score = 80
              /\ prev[i].imdb_score = 85 => golden_age_shows[i].imdb_score = 80
              /\ prev[i].imdb_score = 65 => golden_age_shows[i].imdb_score = 60

C8_Witness ==
    /\ pc = "score_counts"
    /\ \E i, j \in DOMAIN prev : prev[i].imdb_score = 75 /\ prev[j].imdb_score = 85

\* C9: an empty input table runs through every cell without an error and
\* ends with an empty result sequence and no bars.
C9_EmptyInput ==
    input = << >> =>
        /\ error = "none"
        /\ pc # "failed"
        /\ results = << >>
        /\ bars = << >>
        /\ pc # "done" => ENABLED Next

C9_Witness == input = << >> /\ pc = "done"

\* C10: for every non-empty result sequence the chart loop ends without an
\* error and prints one bar per bucket, of length
\* floor(40 * avg_votes / max(avg_votes)): between 0 and 40, and 40 for the
\* bucket with the largest average.
C10_BarsForEveryResult ==
    (pc \in {"done", "failed"} /\ results # << >>) =>
        /\ error = "none"
        /\ Len(bars) = Len(results)
        /\ \A i \in DOMAIN results :
              LET m == Max({ results[j].avg_votes : j \in DOMAIN results })
              IN  /\ bars[i].bar_length = (BarWidth * results[i].avg_votes) \div m
                  /\ bars[i].bar_length \in 0..BarWidth
                  /\ results[i].avg_votes = m => bars[i].bar_length = BarWidth

====
